---- MODULE Spec2Model ----
(***************************************************************************)
(* Model of the reorg-tolerant Uniswap swap fetcher (src/src/main.rs).     *)
(*                                                                         *)
(* Two specifications share the variables:                                 *)
(*   Spec   the main loop: head notifications, the sequential fetch of the *)
(*          window, check_and_update_queue and the eviction, run against   *)
(*          a node whose chain may reorganise at every await point;        *)
(*   SpecQ  check_and_update_queue as a pure function, applied to every    *)
(*          pair of windows drawn from bounded sets;                       *)
(*   SpecP  parse_log and u256_to_string as pure functions, applied to     *)
(*          every pair of raw amounts of a bounded width;                  *)
(*   SpecL  the main loop against a node that neither fails nor            *)
(*          reorganises, followed over a longer stream of heads.           *)
(***************************************************************************)
EXTENDS Integers, Sequences, FiniteSets, TLC

\* main.rs:44  const BLOCK_REORG_MAX_DEPTH: usize = 5
BLOCK_REORG_MAX_DEPTH == 5

\* ------------------------------------------------------------------ bounds
\* Heights the node serves are 0..MaxHeight.
MaxHeight == 6
\* Reorganisations of the node's chain during one run.
MaxReorgs == 1
\* Head notifications the stream delivers during one run.
MaxHeads == 3
\* Longest window handed to check_and_update_queue under SpecQ.
MaxLen == 3
\* Head notifications the stream delivers during one run of SpecL.
LongHeads == 6

Heights == 0..MaxHeight

VARIABLES
  pc,            \* position of main: "start", "fetch_init", "loop", "fetch_loop", "done", "fatal"
  reason,        \* which panic ended the run ("" while running)
  queue,         \* main's `queue` (VecDeque<Block>)
  block_numbers, \* the heights handed to fetch_block_queue
  new_queue,     \* the VecDeque fetch_block_queue is building / has returned
  head,          \* current_block_num of the last head notification (-1: none yet)
  heads,         \* number of stream items consumed so far
  chain,         \* the node: height -> version of the block it serves there
  reorgs,        \* number of reorganisations the node went through
  emitted,       \* one record per println of lines 117-120
  onlyPartial,   \* history: every reorganisation kept the oldest held height
  headsInOrder,  \* history: every head was one above the previous head
  retained,      \* SpecQ: the `queue` argument
  fresh,         \* SpecQ: the `new_queue` argument
  result,        \* SpecQ: outcome of the call
  called,        \* SpecQ: whether the call was made
  again,         \* SpecQ: outcome of a second call with the same new_queue
  amount_dai,    \* SpecP: raw event parameter 2 (int256 as U256)
  amount_usdc,   \* SpecP: raw event parameter 3 (int256 as U256)
  decimals,      \* SpecP: the `decimals` argument of u256_to_string
  parsed,        \* SpecP: outcome of parse_log
  text           \* SpecP: outcome of u256_to_string(amount_dai, decimals)

mainVars == <<pc, reason, queue, block_numbers, new_queue, head, heads, chain,
              reorgs, emitted, onlyPartial, headsInOrder>>
fnVars == <<retained, fresh, result, called, again>>
decVars == <<amount_dai, amount_usdc, decimals, parsed, text>>
vars == <<pc, reason, queue, block_numbers, new_queue, head, heads, chain,
          reorgs, emitted, onlyPartial, headsInOrder, retained, fresh, result, called,
          again, amount_dai, amount_usdc, decimals, parsed, text>>

\* ------------------------------------------------------------ the node
\* The hash of the block the node serves at height h in version v: distinct
\* heights and distinct versions have distinct hashes.
HashOf(h, v) == v * (MaxHeight + 1) + h

\* The swap logs of a block are a function of its hash (the filter of
\* lines 152-158 selects by block hash); parse_log turns each into a ParsedLog.
LogsOf(hash) == IF hash % 2 = 1 THEN <<hash>> ELSE <<>>

\* One iteration of the loop of fetch_block_queue: the Block built for block_i.
FetchedBlock(block_i) ==
  [number |-> block_i,
   hash |-> HashOf(block_i, chain[block_i]),
   parsed_logs |-> LogsOf(HashOf(block_i, chain[block_i]))]

\* ------------------------------------------- check_and_update_queue
\* Outcomes.  A panic carries the queue as it is at the moment of the panic
\* and the number of hash comparisons made so far; it carries no depth.
Panic(why, q, cmps) ==
  [status |-> "fatal", reason |-> why, queue |-> q, cmps |-> cmps]

Returned(q, n, cmps) ==
  [status |-> "ok", reason |-> "", queue |-> q, reorganizations |-> n, cmps |-> cmps]

\* Scan with line 284 copying the hash alone instead of the whole Block.
RECURSIVE ScanHashOnly(_, _, _, _, _)
ScanHashOnly(q, nq, i, n, cmps) ==
  IF i = 0 THEN Returned(q, n, cmps)
  ELSE IF q[i].number # nq[i].number THEN Panic("number", q, cmps)
  ELSE IF q[i].hash = nq[i].hash THEN Returned(q, n, cmps + 1)
  ELSE ScanHashOnly([q EXCEPT ![i].hash = nq[i].hash], nq, i - 1, n + 1, cmps + 1)

\* Scan without the assertion of line 279.
RECURSIVE ScanNoAssert(_, _, _, _, _)
ScanNoAssert(q, nq, i, n, cmps) ==
  IF i = 0 THEN Returned(q, n, cmps)
  ELSE IF q[i].hash = nq[i].hash THEN Returned(q, n, cmps + 1)
  ELSE ScanNoAssert([q EXCEPT ![i] = nq[i]], nq, i - 1, n + 1, cmps + 1)

\* Scan with the replacement of line 284 made before the assertion of line 279.
RECURSIVE ScanReplaceFirst(_, _, _, _, _)
ScanReplaceFirst(q, nq, i, n, cmps) ==
  IF i = 0 THEN Returned(q, n, cmps)
  ELSE IF q[i].number # nq[i].number
    THEN Panic("number", [q EXCEPT ![i] = nq[i]], cmps)
  ELSE IF q[i].hash = nq[i].hash THEN Returned(q, n, cmps + 1)
  ELSE ScanReplaceFirst([q EXCEPT ![i] = nq[i]], nq, i - 1, n + 1, cmps + 1)

\* Scan with the replacement of line 284 made before the test of line 281,
\* so that the member the scan stops at is overwritten too.
RECURSIVE ScanReplaceAtStop(_, _, _, _, _)
ScanReplaceAtStop(q, nq, i, n, cmps) ==
  IF i = 0 THEN Returned(q, n, cmps)
  ELSE IF q[i].number # nq[i].number THEN Panic("number", q, cmps)
  ELSE IF q[i].hash = nq[i].hash
    THEN Returned([q EXCEPT ![i] = nq[i]], n, cmps + 1)
  ELSE ScanReplaceAtStop([q EXCEPT ![i] = nq[i]], nq, i - 1, n + 1, cmps + 1)

\* Scan with the increment of line 286 made before the test of line 281,
\* so that the member the scan stops at is counted too.
RECURSIVE ScanCountsStop(_, _, _, _, _)
ScanCountsStop(q, nq, i, n, cmps) ==
  IF i = 0 THEN Returned(q, n, cmps)
  ELSE IF q[i].number # nq[i].number THEN Panic("number", q, cmps)
  ELSE IF q[i].hash = nq[i].hash THEN Returned(q, n + 1, cmps + 1)
  ELSE ScanCountsStop([q EXCEPT ![i] = nq[i]], nq, i - 1, n + 1, cmps + 1)

\* Lines 277-288: the scan from the newest index (i, 1-based) backward.
RECURSIVE Scan(_, _, _, _, _)
Scan(q, nq, i, n, cmps) ==
  IF i = 0 THEN Returned(q, n, cmps)
  ELSE IF q[i].number # nq[i].number THEN Panic("number", q, cmps)
  ELSE IF q[i].hash = nq[i].hash THEN Returned(q, n, cmps + 1)
  ELSE Scan([q EXCEPT ![i] = nq[i]], nq, i - 1, n + 1, cmps + 1)

\* check_and_update_queue without the anchor test of lines 271-275.
CheckNoAnchor(q, nq) ==
  IF Len(q) # Len(nq) THEN Panic("length", q, 0)
  ELSE IF Len(q) = 0 THEN Panic("index", q, 0)
  ELSE IF q[1].number # nq[1].number THEN Panic("front_number", q, 0)
  ELSE Scan(q, nq, Len(q), 0, 0)

\* check_and_update_queue with the anchor test of lines 271-275 made before
\* the assertion of lines 267-270.
CheckHashFirst(q, nq) ==
  IF Len(q) # Len(nq) THEN Panic("length", q, 0)
  ELSE IF Len(q) = 0 THEN Panic("index", q, 0)
  ELSE IF q[1].hash # nq[1].hash THEN Panic("full_reorg", q, 1)
  ELSE IF q[1].number # nq[1].number THEN Panic("front_number", q, 1)
  ELSE Scan(q, nq, Len(q), 0, 1)

\* Lines 261-289.
check_and_update_queue(q, nq) ==
  IF Len(q) # Len(nq) THEN Panic("length", q, 0)
  ELSE IF Len(q) = 0 THEN Panic("index", q, 0)
  ELSE IF q[1].number # nq[1].number THEN Panic("front_number", q, 0)
  ELSE IF q[1].hash # nq[1].hash THEN Panic("full_reorg", q, 1)
  ELSE Scan(q, nq, Len(q), 0, 1)

\* ------------------------------------------------------------ main loop
Running == pc \in {"start", "fetch_init", "loop", "fetch_loop"}

Fetching == pc \in {"fetch_init", "fetch_loop"}

\* The oldest height the program holds or is fetching (-1: none).
Floor ==
  IF Fetching THEN block_numbers[1]
  ELSE IF Len(queue) > 0 THEN queue[1].number
  ELSE -1

\* Lines 68-71: (0..BLOCK_REORG_MAX_DEPTH - 1).rev().map(|x| n - x)
InitialNumbers(n) ==
  [i \in 1..(BLOCK_REORG_MAX_DEPTH - 1) |-> n - (BLOCK_REORG_MAX_DEPTH - 1 - i)]

Die(why) ==
  /\ pc' = "fatal"
  /\ reason' = why

\* Line 65, Some(Ok(block)): the first head notification.
FirstHead(n) ==
  /\ pc = "start"
  /\ heads < MaxHeads
  /\ heads' = heads + 1
  /\ head' = n
  /\ headsInOrder' = headsInOrder
  /\ IF n < BLOCK_REORG_MAX_DEPTH - 2
       THEN \* U64 subtraction overflows in line 70
            /\ Die("underflow")
            /\ UNCHANGED <<block_numbers, new_queue>>
       ELSE /\ pc' = "fetch_init"
            /\ reason' = reason
            /\ block_numbers' = InitialNumbers(n)
            /\ new_queue' = <<>>
  /\ UNCHANGED <<queue, chain, reorgs, emitted, onlyPartial>>
  /\ UNCHANGED fnVars
  /\ UNCHANGED decVars

\* Line 65, the first stream item is an error: the `if let` is skipped and
\* the loop is entered with an empty queue.
FirstError ==
  /\ pc = "start"
  /\ heads < MaxHeads
  /\ heads' = heads + 1
  /\ pc' = "loop"
  /\ UNCHANGED <<reason, queue, block_numbers, new_queue, head, chain, reorgs,
                 emitted, onlyPartial, headsInOrder>>
  /\ UNCHANGED fnVars
  /\ UNCHANGED decVars

\* The heights the stream may deliver next: the previous head again or one
\* below it (the tip was replaced), the next height, or the height after it
\* (a notification was skipped); any height when no head was seen yet.
NextHeads ==
  IF head < 0 THEN Heights
  ELSE {m \in Heights : head - 1 <= m /\ m <= head + 2}

\* Line 83, Some(Ok(block)): a further head notification; lines 84-87.
HeadArrives(m) ==
  /\ pc = "loop"
  /\ heads' = heads + 1
  /\ head' = m
  /\ headsInOrder' = (headsInOrder /\ head >= 0 /\ m = head + 1)
  /\ block_numbers' = [i \in 1..(Len(queue) + 1) |->
                         IF i <= Len(queue) THEN queue[i].number ELSE m]
  /\ new_queue' = <<>>
  /\ pc' = "fetch_loop"
  /\ UNCHANGED <<reason, queue, chain, reorgs, emitted, onlyPartial>>
  /\ UNCHANGED fnVars
  /\ UNCHANGED decVars

NextHead(m) ==
  /\ heads < MaxHeads
  /\ HeadArrives(m)

NextHeadLong(m) ==
  /\ heads < LongHeads
  /\ HeadArrives(m)

\* Lines 65 and 83: the stream ends or yields an error; main returns Ok(()).
StreamEnd ==
  /\ pc \in {"start", "loop"}
  /\ pc' = "done"
  /\ UNCHANGED <<reason, queue, block_numbers, new_queue, head, heads, chain,
                 reorgs, emitted, onlyPartial, headsInOrder>>
  /\ UNCHANGED fnVars
  /\ UNCHANGED decVars

\* Lines 142-180: one iteration of fetch_block_queue that is not the last.
FetchBlock ==
  /\ Fetching
  /\ Len(new_queue) + 1 < Len(block_numbers)
  /\ new_queue' = Append(new_queue, FetchedBlock(block_numbers[Len(new_queue) + 1]))
  /\ UNCHANGED <<pc, reason, queue, block_numbers, head, heads, chain, reorgs,
                 emitted, onlyPartial, headsInOrder>>
  /\ UNCHANGED fnVars
  /\ UNCHANGED decVars

\* FetchFail with the failed request reported and skipped instead of
\* unwrapped: the fetch goes on with the next height.
FetchFailSkip ==
  /\ Fetching
  /\ Len(new_queue) < Len(block_numbers)
  /\ reason' = "fetch"
  /\ block_numbers' = [i \in 1..(Len(block_numbers) - 1) |->
                         IF i <= Len(new_queue) THEN block_numbers[i]
                         ELSE block_numbers[i + 1]]
  /\ UNCHANGED <<pc, queue, new_queue, head, heads, chain, reorgs,
                 emitted, onlyPartial, headsInOrder>>
  /\ UNCHANGED fnVars
  /\ UNCHANGED decVars

\* Lines 143-160: the node fails to answer; the unwrap panics.
FetchFail ==
  /\ Fetching
  /\ Len(new_queue) < Len(block_numbers)
  /\ Die("fetch")
  /\ UNCHANGED <<queue, block_numbers, new_queue, head, heads, chain, reorgs,
                 emitted, onlyPartial, headsInOrder>>
  /\ UNCHANGED fnVars
  /\ UNCHANGED decVars

\* Lines 73-80: the last fetch of the initial fill and the assignment to queue.
InitialFill ==
  /\ pc = "fetch_init"
  /\ Len(new_queue) + 1 = Len(block_numbers)
  /\ new_queue' = Append(new_queue, FetchedBlock(block_numbers[Len(new_queue) + 1]))
  /\ queue' = new_queue'
  /\ pc' = "loop"
  /\ UNCHANGED <<reason, block_numbers, head, heads, chain, reorgs, emitted,
                 onlyPartial, headsInOrder>>
  /\ UNCHANGED fnVars
  /\ UNCHANGED decVars

\* Number of blocks retained from before the cycle whose hash differs from
\* the freshly fetched hash for the same position.
Diverged(old, nq) ==
  Cardinality({i \in 1..Len(old) : i <= Len(nq) /\ old[i].hash # nq[i].hash})

\* Lines 89-127: the last fetch of a cycle, then push_back, the two length
\* assertions, check_and_update_queue, pop_front, the report and the last
\* assertion.
RollForward ==
  /\ pc = "fetch_loop"
  /\ Len(new_queue) + 1 = Len(block_numbers)
  /\ LET nq == Append(new_queue, FetchedBlock(block_numbers[Len(new_queue) + 1]))
         pushed == Append(queue, nq[Len(nq)])
         r == check_and_update_queue(pushed, nq)
     IN /\ new_queue' = nq
        /\ IF Len(pushed) # BLOCK_REORG_MAX_DEPTH
             THEN /\ Die("queue_len")
                  /\ queue' = pushed
                  /\ UNCHANGED emitted
           ELSE IF Len(nq) # BLOCK_REORG_MAX_DEPTH
             THEN /\ Die("new_queue_len")
                  /\ queue' = pushed
                  /\ UNCHANGED emitted
           ELSE IF r.status = "fatal"
             THEN /\ Die(r.reason)
                  /\ queue' = r.queue
                  /\ UNCHANGED emitted
           ELSE /\ queue' = Tail(r.queue)
                /\ emitted' = Append(emitted,
                     [number |-> r.queue[1].number,
                      hash |-> r.queue[1].hash,
                      parsed_logs |-> r.queue[1].parsed_logs,
                      reorgs |-> r.reorganizations,
                      head |-> head,
                      diverged |-> Diverged(queue, nq),
                      fresh_number |-> nq[1].number,
                      fresh_hash |-> nq[1].hash])
                /\ IF Len(queue') # BLOCK_REORG_MAX_DEPTH - 1
                     THEN Die("queue_len_after")
                     ELSE /\ pc' = "loop"
                          /\ reason' = reason
  /\ UNCHANGED <<block_numbers, head, heads, chain, reorgs, onlyPartial, headsInOrder>>
  /\ UNCHANGED fnVars
  /\ UNCHANGED decVars

\* The node: the chain reorganises from height h to the tip; every block at
\* or above h is replaced by a block with another hash.
Reorg(h) ==
  /\ Running
  /\ reorgs < MaxReorgs
  /\ reorgs' = reorgs + 1
  /\ chain' = [x \in Heights |-> IF x >= h THEN chain[x] + 1 ELSE chain[x]]
  /\ onlyPartial' = (onlyPartial /\ h > Floor)
  /\ UNCHANGED <<pc, reason, queue, block_numbers, new_queue, head, heads,
                 emitted, headsInOrder>>
  /\ UNCHANGED fnVars
  /\ UNCHANGED decVars

NoCall == [status |-> "none"]

Init ==
  /\ pc = "start"
  /\ reason = ""
  /\ queue = <<>>
  /\ block_numbers = <<>>
  /\ new_queue = <<>>
  /\ head = -1
  /\ heads = 0
  /\ chain = [x \in Heights |-> 0]
  /\ reorgs = 0
  /\ emitted = <<>>
  /\ onlyPartial = TRUE
  /\ headsInOrder = TRUE
  /\ retained = <<>>
  /\ fresh = <<>>
  /\ result = NoCall
  /\ called = FALSE
  /\ again = NoCall
  /\ amount_dai = 0
  /\ amount_usdc = 0
  /\ decimals = 0
  /\ parsed = NoCall
  /\ text = NoCall

Next ==
  \/ \E n \in Heights : FirstHead(n)
  \/ FirstError
  \/ \E m \in NextHeads : NextHead(m)
  \/ StreamEnd
  \/ FetchBlock
  \/ FetchFail
  \/ InitialFill
  \/ RollForward
  \/ \E h \in Heights : Reorg(h)

Spec == Init /\ [][Next]_vars

\* The main loop against a node that answers every request and does not
\* reorganise, over a stream of up to LongHeads heads.
NextL ==
  \/ \E n \in Heights : FirstHead(n)
  \/ \E m \in NextHeads : NextHeadLong(m)
  \/ StreamEnd
  \/ FetchBlock
  \/ InitialFill
  \/ RollForward

SpecL == Init /\ [][NextL]_vars

\* ------------------------------------------------- check_and_update_queue
\* as a pure function: the arguments are drawn from bounded sets.
QHashes == {1, 2}

QLogs == {<<>>, <<1>>}

\* The retained windows: heights 1, 2, ... in order, any hashes, any logs.
RetainedWindows(n) ==
  {[i \in 1..n |-> [number |-> i, hash |-> hs[i], parsed_logs |-> ls[i]]] :
     hs \in [1..n -> QHashes], ls \in [1..n -> QLogs]}

\* The fresh windows: at each index the retained height or another one, any
\* hashes, any logs.
FreshWindows(n) ==
  {[i \in 1..n |-> [number |-> i + ds[i], hash |-> hs[i], parsed_logs |-> ls[i]]] :
     ds \in [1..n -> {0, 1}], hs \in [1..n -> QHashes], ls \in [1..n -> QLogs]}

InitQ ==
  /\ pc = "start"
  /\ reason = ""
  /\ queue = <<>>
  /\ block_numbers = <<>>
  /\ new_queue = <<>>
  /\ head = -1
  /\ heads = 0
  /\ chain = [x \in Heights |-> 0]
  /\ reorgs = 0
  /\ emitted = <<>>
  /\ onlyPartial = TRUE
  /\ headsInOrder = TRUE
  /\ \E n \in 0..MaxLen : retained \in RetainedWindows(n)
  /\ \E n \in 0..MaxLen : fresh \in FreshWindows(n)
  /\ result = NoCall
  /\ called = FALSE
  /\ again = NoCall
  /\ amount_dai = 0
  /\ amount_usdc = 0
  /\ decimals = 0
  /\ parsed = NoCall
  /\ text = NoCall

\* The call check_and_update_queue(&mut retained, &fresh).
Call ==
  /\ ~called
  /\ called' = TRUE
  /\ result' = check_and_update_queue(retained, fresh)
  /\ UNCHANGED <<retained, fresh, again>>
  /\ UNCHANGED mainVars
  /\ UNCHANGED decVars

\* After a call that returned: check_and_update_queue(&mut retained, &fresh)
\* once more, on the window the first call left and the same new_queue.
CallAgain ==
  /\ called
  /\ result.status = "ok"
  /\ again = NoCall
  /\ again' = check_and_update_queue(result.queue, fresh)
  /\ UNCHANGED <<retained, fresh, result, called>>
  /\ UNCHANGED mainVars
  /\ UNCHANGED decVars

NextQ ==
  \/ Call
  \/ CallAgain

SpecQ == InitQ /\ [][NextQ]_vars

\* ------------------------------------------- u256_to_string, parse_log
\* as pure functions.  U256 is modelled at Width bits instead of 256: the
\* sign bit is bit Width-1, the code's bit 255.
Width == 7

\* Largest `decimals` handed to u256_to_string under SpecP.
MaxDecimals == 4

U256Values == 0..(2 ^ Width - 1)

\* Lines 184-186: amount.bit(255).
u256_is_negative(amount) == (amount \div 2 ^ (Width - 1)) % 2 = 1

\* Lines 193-200: every bit of the big-endian bytes inverted.
RECURSIVE InvertBits(_, _)
InvertBits(amount, nbits) ==
  IF nbits = 0 THEN 0
  ELSE (1 - (amount % 2)) + 2 * InvertBits(amount \div 2, nbits - 1)

\* Magnitude without the `amount += U256::one()` of line 201.
MagnitudeNoInc(amount) ==
  IF u256_is_negative(amount)
    THEN [overflow |-> FALSE, value |-> InvertBits(amount, Width)]
    ELSE [overflow |-> FALSE, value |-> amount]

\* Lines 189-202: the value u256_to_string goes on to format.  U256's `+=`
\* panics when the sum does not fit.
Magnitude(amount) ==
  IF u256_is_negative(amount)
    THEN LET inverted == InvertBits(amount, Width)
         IN IF inverted + 1 >= 2 ^ Width
              THEN [overflow |-> TRUE, value |-> 0]
              ELSE [overflow |-> FALSE, value |-> inverted + 1]
    ELSE [overflow |-> FALSE, value |-> amount]

\* Strings are sequences of characters.
DigitChars == <<"0", "1", "2", "3", "4", "5", "6", "7", "8", "9">>

\* Line 204: amount.to_string(), the base-10 digits without leading zeros.
RECURSIVE to_string(_)
to_string(n) ==
  IF n < 10 THEN <<DigitChars[n + 1]>>
  ELSE Append(to_string(n \div 10), DigitChars[(n % 10) + 1])

\* "0".repeat(n)
Zeros(n) == [i \in 1..n |-> "0"]

\* u256_to_string with the padding of line 219 left out.
u256_to_stringNoPad(amount, dec) ==
  LET m == Magnitude(amount)
      decimal_string == to_string(m.value)
      len == Len(decimal_string)
      integer == IF len > dec THEN SubSeq(decimal_string, 1, len - dec) ELSE <<"0">>
      fraction == IF len > dec
                    THEN IF dec > 0 THEN SubSeq(decimal_string, len - dec + 1, len)
                         ELSE <<"0">>
                    ELSE decimal_string
  IN IF m.overflow THEN [status |-> "fatal", reason |-> "overflow"]
     ELSE [status |-> "ok", reason |-> "", magnitude |-> m.value,
           string |-> integer \o <<".">> \o fraction]

\* Lines 188-224.
u256_to_string(amount, dec) ==
  LET m == Magnitude(amount)
      decimal_string == to_string(m.value)
      len == Len(decimal_string)
      integer == IF len > dec THEN SubSeq(decimal_string, 1, len - dec) ELSE <<"0">>
      fraction == IF len > dec
                    THEN IF dec > 0 THEN SubSeq(decimal_string, len - dec + 1, len)
                         ELSE <<"0">>
                    ELSE Zeros(dec - len) \o decimal_string
  IN IF m.overflow THEN [status |-> "fatal", reason |-> "overflow"]
     ELSE [status |-> "ok", reason |-> "", magnitude |-> m.value,
           string |-> integer \o <<".">> \o fraction]

\* The record parse_log builds (sender and receiver, which do not depend on
\* the amounts, are left out).
ParsedLog(dai, usdc, usdc_negative) ==
  [status |-> "ok", reason |-> "",
   direction |-> IF usdc_negative THEN "DAI -> USDC" ELSE "USDC -> DAI",
   amount_usdc |-> u256_to_string(usdc, 6).string,
   amount_dai |-> u256_to_string(dai, 18).string]

\* parse_log with the assertion of line 244 written with `|` instead of `^`.
parse_logOr(dai, usdc) ==
  LET is_amount_dai_negative == (dai \div 2 ^ (Width - 1)) % 2 = 1
      is_amount_usdc_negative == (usdc \div 2 ^ (Width - 1)) % 2 = 1
  IN IF ~(is_amount_dai_negative \/ is_amount_usdc_negative)
       THEN [status |-> "fatal", reason |-> "sign"]
       ELSE ParsedLog(dai, usdc, is_amount_usdc_negative)

\* parse_log with line 248 testing is_amount_dai_negative.
parse_logDaiTest(dai, usdc) ==
  LET is_amount_dai_negative == (dai \div 2 ^ (Width - 1)) % 2 = 1
      is_amount_usdc_negative == (usdc \div 2 ^ (Width - 1)) % 2 = 1
  IN IF is_amount_dai_negative = is_amount_usdc_negative
       THEN [status |-> "fatal", reason |-> "sign"]
       ELSE ParsedLog(dai, usdc, is_amount_dai_negative)

\* Lines 232-255: dai is params[2], usdc is params[3].
parse_log(dai, usdc) ==
  LET is_amount_dai_negative == (dai \div 2 ^ (Width - 1)) % 2 = 1
      is_amount_usdc_negative == (usdc \div 2 ^ (Width - 1)) % 2 = 1
  IN IF is_amount_dai_negative = is_amount_usdc_negative
       THEN [status |-> "fatal", reason |-> "sign"]
       ELSE ParsedLog(dai, usdc, is_amount_usdc_negative)

InitP ==
  /\ pc = "start"
  /\ reason = ""
  /\ queue = <<>>
  /\ block_numbers = <<>>
  /\ new_queue = <<>>
  /\ head = -1
  /\ heads = 0
  /\ chain = [x \in Heights |-> 0]
  /\ reorgs = 0
  /\ emitted = <<>>
  /\ onlyPartial = TRUE
  /\ headsInOrder = TRUE
  /\ retained = <<>>
  /\ fresh = <<>>
  /\ result = NoCall
  /\ called = FALSE
  /\ again = NoCall
  /\ amount_dai \in U256Values
  /\ amount_usdc \in U256Values
  /\ decimals \in 0..MaxDecimals
  /\ parsed = NoCall
  /\ text = NoCall

\* The call parse_log(log) of line 167.
CallParseLog ==
  /\ parsed = NoCall
  /\ parsed' = parse_log(amount_dai, amount_usdc)
  /\ UNCHANGED <<amount_dai, amount_usdc, decimals, text>>
  /\ UNCHANGED mainVars
  /\ UNCHANGED fnVars

\* The call u256_to_string(amount_dai, decimals).
CallU256ToString ==
  /\ text = NoCall
  /\ text' = u256_to_string(amount_dai, decimals)
  /\ UNCHANGED <<amount_dai, amount_usdc, decimals, parsed>>
  /\ UNCHANGED mainVars
  /\ UNCHANGED fnVars

NextP ==
  \/ CallParseLog
  \/ CallU256ToString

SpecP == InitP /\ [][NextP]_vars

\* ------------------------------------------------------------ the claims
Consecutive(q) == \A i \in 1..(Len(q) - 1) : q[i].number + 1 = q[i + 1].number

\* A roll-forward cycle has just ended successfully: new_queue is the window
\* that cycle fetched, queue what is retained after the eviction.
CycleDone == pc = "loop" /\ Len(emitted) > 0

\* C1: at the end of every successful roll-forward cycle every snapshot still
\* held has the hash this cycle's fresh fetch returned for its height.
C1_RetainedMatchesFresh ==
  CycleDone =>
    \A i \in 1..Len(queue) : queue[i].hash = new_queue[i + 1].hash

\* C2: the reorg depth reported with an emitted snapshot equals the number of
\* snapshots retained from before the cycle whose hash differs from the hash
\* freshly fetched for the same height in that cycle.
C2_DepthCountsDivergence ==
  \A k \in 1..Len(emitted) : emitted[k].reorgs = emitted[k].diverged

\* C3: when every reorganisation is partial (the oldest held height keeps its
\* hash at the moment of change), the full-depth-reorg abort is never reached,
\* in that cycle or any later one.  Stated for runs whose heads arrive in
\* order, one height at a time.
C3_PartialReorgNeverFatal ==
  (onlyPartial /\ headsInOrder) => ~(pc = "fatal" /\ reason = "full_reorg")

\* The windows meet the precondition of C4.
AlignedAnchored ==
  /\ Len(retained) = Len(fresh)
  /\ Len(retained) > 0
  /\ \A i \in 1..Len(retained) : retained[i].number = fresh[i].number
  /\ retained[1].hash = fresh[1].hash

\* Length of the maximal trailing run of indices whose hashes differ.
TrailingRun(q, nq) ==
  CHOOSE k \in 0..Len(q) :
    /\ \A i \in (Len(q) - k + 1)..Len(q) : q[i].hash # nq[i].hash
    /\ k = Len(q) \/ q[Len(q) - k].hash = nq[Len(q) - k].hash

\* C4: for equal-length windows with equal heights at every index and equal
\* hashes at index 0, check_and_update_queue returns the length k of the
\* maximal trailing run of differing hashes, 0 <= k <= W-1, and afterwards
\* each of those k trailing members equals the fresh member at its index.
C4_ReturnsTrailingRun ==
  (called /\ AlignedAnchored) =>
    LET k == TrailingRun(retained, fresh)
        n == Len(retained)
    IN /\ result.status = "ok"
       /\ result.reorganizations = k
       /\ 0 <= k /\ k <= n - 1
       /\ Len(result.queue) = n
       /\ \A i \in (n - k + 1)..n : result.queue[i] = fresh[i]

C4_Witness ==
  /\ called /\ AlignedAnchored
  /\ Len(retained) = 3
  /\ result.status = "ok"
  /\ result.reorganizations = 2
  /\ retained[3].parsed_logs # fresh[3].parsed_logs
  /\ result.queue[3] = fresh[3]

\* C5: whenever a snapshot is emitted, the head notification that triggered
\* the emission is exactly W-1 above the emitted snapshot's height.
C5_EmittedAtFixedLag ==
  \A k \in 1..Len(emitted) :
    emitted[k].head = emitted[k].number + BLOCK_REORG_MAX_DEPTH - 1

\* C6: after any successful roll-forward, for any head height delivered, the
\* window's heights are consecutive and the floor is one above the prior floor
\* (the height of the snapshot just evicted).
C6_ConsecutiveAfterRollForward ==
  CycleDone =>
    /\ Consecutive(queue)
    /\ queue[1].number = emitted[Len(emitted)].number + 1

\* C7: if the oldest retained hash differs from the oldest fresh hash (equal
\* lengths, equal first height), check_and_update_queue fails fatally and
\* returns no depth, whatever the hashes at the other indices.
C7_AnchorMismatchFatal ==
  (/\ called
   /\ Len(retained) = Len(fresh)
   /\ Len(retained) > 0
   /\ retained[1].number = fresh[1].number
   /\ retained[1].hash # fresh[1].hash)
  => /\ result.status = "fatal"
     /\ result.reason = "full_reorg"
     /\ "reorganizations" \notin DOMAIN result

C7_Witness ==
  /\ called
  /\ Len(retained) = 3 /\ Len(fresh) = 3
  /\ \A i \in 1..3 : retained[i].number = fresh[i].number
  /\ retained[1].hash # fresh[1].hash
  /\ \A i \in 2..3 : retained[i].hash = fresh[i].hash
  /\ result.status = "fatal"
  /\ result.reason = "full_reorg"

\* Some index of two equal-length windows holds different heights.
Misaligned ==
  /\ Len(retained) = Len(fresh)
  /\ \E i \in 1..Len(retained) : retained[i].number # fresh[i].number

C9_FatalLeavesWindowUntouched ==
  (called /\ result.status = "fatal") => result.queue = retained

\* C9 amended: on a length mismatch, a height misalignment at index 0 or a
\* full-depth reorg the retained window at the moment of failure is the window
\* passed in; on a height misalignment at an index i > 0 the members at the
\* indices up to i are as passed in and every member newer than i, all of
\* whose hashes differed, has already been replaced by the fresh member.
C9_FatalReplacesOnlyNewerThanMisalignment ==
  (called /\ result.status = "fatal") =>
    /\ result.reason \in {"length", "index", "front_number", "full_reorg"}
         => result.queue = retained
    /\ result.reason = "number"
         => /\ Len(result.queue) = Len(retained)
            /\ \E i \in 2..Len(retained) :
                 /\ retained[i].number # fresh[i].number
                 /\ \A j \in 1..i : result.queue[j] = retained[j]
                 /\ \A j \in (i + 1)..Len(retained) :
                      /\ retained[j].hash # fresh[j].hash
                      /\ result.queue[j] = fresh[j]

C9_Witness ==
  /\ called
  /\ result.status = "fatal"
  /\ result.reason = "number"
  /\ Len(retained) = 3
  /\ retained[2].number # fresh[2].number
  /\ result.queue[3] = fresh[3]
  /\ result.queue[3] # retained[3]
  /\ result.queue[2] = retained[2]

\* C10: if the windows differ in length, or have equal length but different
\* heights at index 0, check_and_update_queue fails fatally before any hash
\* is compared and before any member is replaced.
C10_PreconditionBeforeHashes ==
  (/\ called
   /\ \/ Len(retained) # Len(fresh)
      \/ /\ Len(retained) > 0
         /\ retained[1].number # fresh[1].number)
  => /\ result.status = "fatal"
     /\ result.reason \in {"length", "front_number"}
     /\ result.cmps = 0
     /\ result.queue = retained

C10_Witness ==
  /\ called
  /\ Len(retained) = 3 /\ Len(fresh) = 3
  /\ retained[1].number # fresh[1].number
  /\ \A i \in 1..3 : retained[i].hash # fresh[i].hash
  /\ result.status = "fatal"
  /\ result.reason = "front_number"
  /\ result.cmps = 0

\* C11: in a successful call that returns k, every retained member at an
\* index below len-k (older than the replaced trailing run) is left unchanged
\* in height, hash and events.
C11_OlderMembersUntouched ==
  (called /\ result.status = "ok") =>
    /\ Len(result.queue) = Len(retained)
    /\ \A i \in 1..(Len(retained) - result.reorganizations) :
         result.queue[i] = retained[i]

\* Two newest hashes differ, the older member is the same block at both sides
\* but was fetched with other events: the result is 2 and it is untouched.
C11_Witness ==
  /\ called
  /\ Len(retained) = 3
  /\ result.status = "ok"
  /\ result.reorganizations = 2
  /\ retained[1].parsed_logs # fresh[1].parsed_logs
  /\ result.queue[1] = retained[1]
  /\ result.queue[2] = fresh[2] /\ result.queue[3] = fresh[3]

\* The fresh window holds, at every index, the block the retained window
\* holds there (same height, same hash), and the windows are not empty.
SameBlocks ==
  /\ Len(retained) = Len(fresh)
  /\ Len(retained) > 0
  /\ \A i \in 1..Len(retained) :
       /\ retained[i].number = fresh[i].number
       /\ retained[i].hash = fresh[i].hash

FreshComplete(nq, numbers) ==
  /\ Len(nq) = Len(numbers)
  /\ \A i \in 1..Len(numbers) : nq[i].number = numbers[i]

\* C13: a failed block or log fetch, in the initial fill or in a cycle, ends
\* the run fatally: nothing runs after the panic (no retry), the step of the
\* failure runs no check_and_update_queue and emits nothing (queue and the
\* emitted list are as before, the fresh window is still incomplete), and
\* every step that does run the comparison runs it on a fresh window holding
\* one snapshot per requested height in request order.
C13_FetchFailureIsFatal ==
  [][/\ pc # "fatal"
     /\ reason' = "fetch" =>
          /\ Fetching
          /\ pc' = "fatal"
          /\ queue' = queue
          /\ emitted' = emitted
          /\ Len(new_queue') < Len(block_numbers')
     /\ (pc = "fetch_loop" /\ pc' # "fetch_loop" /\ reason' # "fetch") =>
          FreshComplete(new_queue', block_numbers)]_vars

\* A fetch failed in the middle of the second cycle, after one emission.
C13_Witness ==
  /\ pc = "fatal"
  /\ reason = "fetch"
  /\ Len(emitted) = 1
  /\ Len(new_queue) = 2
  /\ Len(block_numbers) = BLOCK_REORG_MAX_DEPTH
  /\ Len(queue) = BLOCK_REORG_MAX_DEPTH - 1

\* The raw amount, read as a two's-complement integer, is negative.
IsNegative(m) == m >= 2 ^ (Width - 1)

\* C14: parse_log produces a record only when exactly one of the two raw
\* amounts has the sign bit set; when both are negative or both are
\* non-negative it fails fatally and no record is built.
C14_RecordIffOneNegative ==
  (parsed # NoCall) =>
    IF IsNegative(amount_dai) # IsNegative(amount_usdc)
      THEN /\ parsed.status = "ok"
           /\ "direction" \in DOMAIN parsed
      ELSE /\ parsed.status = "fatal"
           /\ DOMAIN parsed = {"status", "reason"}

C14_Witness ==
  /\ parsed # NoCall
  /\ IsNegative(amount_dai) /\ IsNegative(amount_usdc)
  /\ parsed.status = "fatal"

\* C15 as stated: with A the DAI amount (parameter 2) and B the USDC amount
\* (parameter 3), the direction is B->A exactly when B is the negative one,
\* and A->B otherwise.
C15_DirectionFromBWhenBNegative ==
  (parsed # NoCall /\ parsed.status = "ok") =>
    parsed.direction =
      IF IsNegative(amount_usdc) THEN "USDC -> DAI" ELSE "DAI -> USDC"

\* C15 amended: the direction is A->B (DAI -> USDC) exactly when rawAmountB,
\* the USDC amount, is the negative one, and B->A (USDC -> DAI) otherwise,
\* when rawAmountA is the negative one: the swap goes toward the token whose
\* amount is negative.
C15_DirectionTowardNegative ==
  (parsed # NoCall /\ parsed.status = "ok") =>
    /\ parsed.direction \in {"DAI -> USDC", "USDC -> DAI"}
    /\ parsed.direction = "DAI -> USDC" <=> IsNegative(amount_usdc)
    /\ parsed.direction = "USDC -> DAI" <=> IsNegative(amount_dai)

C15_Witness ==
  /\ parsed # NoCall
  /\ parsed.status = "ok"
  /\ IsNegative(amount_usdc) /\ ~IsNegative(amount_dai)
  /\ parsed.direction = "DAI -> USDC"

\* C16: for every value m of the width with the most-significant bit set,
\* 2^(w-1) and the all-ones pattern included, the magnitude u256_to_string
\* formats is 2^w - m, reached without overflow; with the bit clear it is m.
C16_MagnitudeIsTwosComplement ==
  (text # NoCall) =>
    /\ text.status = "ok"
    /\ text.magnitude =
         IF IsNegative(amount_dai) THEN 2 ^ Width - amount_dai ELSE amount_dai

C16_Witness ==
  /\ text # NoCall
  /\ amount_dai = 2 ^ (Width - 1)
  /\ text.status = "ok"
  /\ text.magnitude = 2 ^ (Width - 1)

\* Reading a formatted string back.
DotPositions(str) == {i \in 1..Len(str) : str[i] = "."}

IntegerPart(str) ==
  SubSeq(str, 1, (CHOOSE i \in DotPositions(str) : TRUE) - 1)

FractionPart(str) ==
  SubSeq(str, (CHOOSE i \in DotPositions(str) : TRUE) + 1, Len(str))

IsDigits(str) ==
  /\ Len(str) > 0
  /\ \A i \in 1..Len(str) : \E d \in 0..9 : str[i] = DigitChars[d + 1]

RECURSIVE DigitsValue(_)
DigitsValue(str) ==
  IF Len(str) = 0 THEN 0
  ELSE 10 * DigitsValue(SubSeq(str, 1, Len(str) - 1))
       + (CHOOSE d \in 0..9 : str[Len(str)] = DigitChars[d + 1])

\* C17: u256_to_string yields integer.fraction with exactly one '.'; with
\* decimals > 0 the fraction has exactly `decimals` digits, with decimals = 0
\* it is "0"; the integer part is "0" when the magnitude has at most
\* `decimals` digits and otherwise has no leading zero; and
\* integer * 10^decimals + fraction is the magnitude.
C17_IntegerDotFraction ==
  (text # NoCall /\ text.status = "ok") =>
    /\ Cardinality(DotPositions(text.string)) = 1
    /\ LET int == IntegerPart(text.string)
           frac == FractionPart(text.string)
       IN /\ IsDigits(int)
          /\ IsDigits(frac)
          /\ decimals > 0 => Len(frac) = decimals
          /\ decimals = 0 => frac = <<"0">>
          /\ IF decimals > 0 /\ text.magnitude < 10 ^ decimals
               THEN int = <<"0">>
               ELSE Len(int) = 1 \/ int[1] # "0"
          /\ DigitsValue(int) * 10 ^ decimals + DigitsValue(frac) = text.magnitude

\* 7 with three decimals: the fraction is padded on the left.
C17_Witness ==
  /\ text # NoCall
  /\ amount_dai = 7
  /\ decimals = 3
  /\ text.string = <<"0", ".", "0", "0", "7">>

\* C18: in every cycle the main loop executes, for any sequence of stream
\* items, an error as the very first item included, the three length
\* assertions of the main loop (lines 100-111 and 122-127) never fail.
C18_LengthAssertionsHold ==
  ~(pc = "fatal" /\ reason \in {"queue_len", "new_queue_len", "queue_len_after"})

\* C19: every snapshot emitted has, at the moment of emission, the hash the
\* node returned for its height in the fresh fetch of the same cycle; when
\* the front of the window no longer matches, the run aborts and the cycle
\* emits nothing.
C19_EmittedMatchesFresh ==
  /\ \A k \in 1..Len(emitted) :
       /\ emitted[k].number = emitted[k].fresh_number
       /\ emitted[k].hash = emitted[k].fresh_hash
  /\ (pc = "fatal" /\ reason = "full_reorg") =>
       /\ queue[1].number = new_queue[1].number
       /\ queue[1].hash # new_queue[1].hash
       /\ \A k \in 1..Len(emitted) : emitted[k].number # queue[1].number

\* An emission in a cycle in which a newer retained member had diverged.
C19_Witness ==
  /\ Len(emitted) > 0
  /\ emitted[Len(emitted)].diverged > 0
  /\ emitted[Len(emitted)].hash = emitted[Len(emitted)].fresh_hash

\* C20: over any run and any sequence of head notifications, the emitted
\* heights are consecutive, strictly increasing integers: none is emitted
\* twice and none between the first and the last is skipped.
C20_EmittedHeightsConsecutive ==
  \A k \in 1..(Len(emitted) - 1) : emitted[k + 1].number = emitted[k].number + 1

====
